---- MODULE Spec2Model ----
(***************************************************************************)
(* Model of src/app.py: the Flask handler upload_image and the measuring   *)
(* pipeline calculate_foot_size.                                           *)
(*                                                                         *)
(* Units.  Lengths in cm are kept in fixed point: CONVERSION_FACTOR and    *)
(* foot_length_cm are in thousandths of a cm, the value returned by        *)
(* round(., 2) is in hundredths of a cm.  contourArea is twice the         *)
(* enclosed area (the shoelace sum before the division by two), which      *)
(* orders contours exactly as cv2.contourArea does.                        *)
(*                                                                         *)
(* The cv2 pixel stages (imread, cvtColor, GaussianBlur, Canny,            *)
(* findContours) are library code.  An uploaded byte buffer is described   *)
(* by what those stages make of it: whether imread can decode it, the      *)
(* stage (if any) at which cv2 raises on it, and the contour list that     *)
(* findContours returns for it.                                            *)
(***************************************************************************)
EXTENDS Integers, Sequences, FiniteSets, TLC

VARIABLES
    CONVERSION_FACTOR,  \* module global, thousandths of a cm per pixel
    files,              \* UPLOAD_FOLDER: file name -> bytes
    issued,             \* number of uuid4 values drawn so far
    pc,                 \* per request: position in upload_image / calculate_foot_size
    body,               \* per request: the request body
    image_bytes,        \* per request: result of base64.b64decode
    file_path,          \* per request: path the upload was saved under (0: none yet)
    grid,               \* per request: img / gray / blurred / edged
    contours,           \* per request: result of cv2.findContours
    largest_contour,    \* per request: result of max(contours, key=cv2.contourArea)
    foot_size_cm,       \* per request: value returned by calculate_foot_size
    response,           \* per request: (json, status) returned by upload_image
    stages              \* per request: the pipeline calls made, in order

vars == <<CONVERSION_FACTOR, files, issued, pc, body, image_bytes, file_path,
          grid, contours, largest_contour, foot_size_cm, response, stages>>

\* ---------------------------------------------------------------- bounds
NumRequests == 2
MaxContours == 2
MaxSide == 2

Requests == 1..NumRequests

\* ---------------------------------------------------------------- values
None == <<>>
Some(v) == <<v>>

Abs(n) == IF n < 0 THEN -n ELSE n

\* The outer contour cv2.findContours reports (CHAIN_APPROX_SIMPLE) for a
\* filled axis-aligned rectangle of w x h pixels whose top-left pixel is (x, y).
Rect(x, y, w, h) ==
    IF w = 1 /\ h = 1 THEN << <<x, y>> >>
    ELSE IF w = 1 THEN << <<x, y>>, <<x, y + h - 1>> >>
    ELSE IF h = 1 THEN << <<x, y>>, <<x + w - 1, y>> >>
    ELSE << <<x, y>>, <<x, y + h - 1>>, <<x + w - 1, y + h - 1>>, <<x + w - 1, y>> >>

Triangle == << <<0, 0>>, <<0, 2>>, <<4, 0>> >>

Origins == { <<0, 0>>, <<1, 2>> }

ContourShapes ==
    { Rect(o[1], o[2], w, h) : o \in Origins, w \in 1..MaxSide, h \in 1..MaxSide }
    \cup { Triangle }

RECURSIVE SeqsUpTo(_, _)
SeqsUpTo(S, n) ==
    IF n = 0 THEN { <<>> }
    ELSE LET shorter == SeqsUpTo(S, n - 1)
         IN  shorter \cup { Append(s, e) : s \in { t \in shorter : Len(t) = n - 1 }, e \in S }

PipelineStages == <<"imread", "cvtColor", "GaussianBlur", "Canny", "findContours",
                    "max", "boundingRect">>

\* Bytes of an uploaded file.
GarbageBytes == [junk |-> FALSE, decodable |-> FALSE, raises |-> "none", contours |-> <<>>]
ImageBytes(cs) == [junk |-> FALSE, decodable |-> TRUE, raises |-> "none", contours |-> cs]
RaisingBytes(stage) == [junk |-> FALSE, decodable |-> TRUE, raises |-> stage, contours |-> <<>>]

RaisingStages == {"cvtColor", "GaussianBlur", "Canny", "findContours"}

NoGrid == [tag |-> "none", data |-> GarbageBytes]
NoResponse == [status |-> 0, message |-> ""]

\* ---------------------------------------------------------------- request bodies
\* json:   "invalid" (get_json raises), "null" (get_json returns None),
\*         "no_image" (an object without the key 'image'), "image"
\* header: the leading characters of data['image']
\* sep:    whether the string holds a ','
\* b64ok:  whether base64.b64decode accepts what is handed to it
\* payload: the bytes the part after the ',' encodes
Body(json, header, sep, b64ok, payload) ==
    [json |-> json, header |-> header, sep |-> sep, b64ok |-> b64ok, payload |-> payload]

PNG == "data:image/png;"
JPEG == "data:image/jpeg;"
GIF == "data:image/gif;"

SampleImage == ImageBytes(<< Rect(0, 0, 2, 2) >>)

RejectedBodies ==
    { Body("invalid", PNG, TRUE, TRUE, SampleImage),
      Body("null", PNG, TRUE, TRUE, SampleImage),
      Body("no_image", PNG, TRUE, TRUE, SampleImage),
      Body("image", GIF, TRUE, TRUE, SampleImage),
      Body("image", PNG, TRUE, FALSE, SampleImage),
      Body("image", JPEG, FALSE, TRUE, SampleImage) }

\* Bodies of the requests that run concurrently.
SharedBodies ==
    RejectedBodies \cup
    { Body("image", PNG, TRUE, TRUE, p) :
        p \in { GarbageBytes,
                ImageBytes(<<>>),
                SampleImage,
                ImageBytes(<< Rect(1, 2, 1, 2), Triangle >>),
                RaisingBytes("Canny") } }

\* Bodies of the request that runs alone.
PipelineBodies ==
    RejectedBodies \cup
    { Body("image", JPEG, TRUE, TRUE, SampleImage) } \cup
    { Body("image", PNG, TRUE, TRUE, p) :
        p \in {GarbageBytes}
              \cup { RaisingBytes(s) : s \in RaisingStages }
              \cup { ImageBytes(cs) : cs \in SeqsUpTo(ContourShapes, MaxContours) } }

\* ---------------------------------------------------------------- responses
MsgNoImage == "Nenhuma imagem fornecida."
MsgBadType == "Tipo de imagem nao permitido. Apenas PNG ou JPG sao aceitos."
MsgSaveError == "Erro ao salvar a imagem."
MsgSuccess == "Imagem processada com sucesso!"
MsgNotDetected == "Nao foi possivel detectar o pe na imagem."
MsgError == "Erro no processamento da imagem."

Reply(status, message) == [status |-> status, message |-> message]
ReplySize(status, message, size) ==
    [status |-> status, message |-> message, foot_size_cm |-> size]

\* ---------------------------------------------------------------- pure functions
allowed_file_type_any(b) == b.header \in {PNG, JPEG, GIF}

allowed_file_type(b) == b.header \in {PNG, JPEG}

\* base64.b64decode of image_data after `if ',' in image_data: split(",")[1]`:
\* without a ',' the header characters are decoded along with the payload.
b64decode(b) == IF b.sep THEN b.payload ELSE [b.payload EXCEPT !.junk = TRUE]

uuid4_repeat == IF issued = 0 THEN 1 ELSE issued

\* uuid.uuid4().hex: a value no earlier call returned.
uuid4 == issued + 1

\* open(file_path, 'wb').write(image_bytes)
WriteFile(fs, name, bytes) ==
    [n \in DOMAIN fs \cup {name} |-> IF n = name THEN bytes ELSE fs[n]]

Decodes(bytes) == bytes.decodable /\ ~bytes.junk

imread_latest(path) ==
    IF issued \in DOMAIN files /\ Decodes(files[issued])
    THEN Some([tag |-> "bgr", data |-> files[issued]])
    ELSE None

\* cv2.imread: None when the file is missing or is no image
imread(path) ==
    IF path \in DOMAIN files /\ Decodes(files[path])
    THEN Some([tag |-> "bgr", data |-> files[path]])
    ELSE None

\* Whether the cv2 call `stage`, which expects a grid tagged `want`, raises on g.
Raises(g, stage, want) == g.tag # want \/ g.data.raises = stage

cvtColor(g) == [g EXCEPT !.tag = "gray"]
GaussianBlur(g) == [g EXCEPT !.tag = "blurred"]
Canny(g) == [g EXCEPT !.tag = "edged"]
findContours(g) == g.data.contours

RECURSIVE ShoelaceSum(_, _)
ShoelaceSum(c, i) ==
    IF i > Len(c) THEN 0
    ELSE LET p == c[i]
             q == c[IF i = Len(c) THEN 1 ELSE i + 1]
         IN  p[1] * q[2] - q[1] * p[2] + ShoelaceSum(c, i + 1)

\* cv2.contourArea, doubled
contourArea(c) == Abs(ShoelaceSum(c, 1))

RECURSIVE MaxFrom(_, _, _)
MaxFrom(cs, i, best) ==
    IF i > Len(cs) THEN best
    ELSE MaxFrom(cs, i + 1,
                 IF contourArea(cs[i]) > contourArea(best) THEN cs[i] ELSE best)

RECURSIVE MaxLastFrom(_, _, _)
MaxLastFrom(cs, i, best) ==
    IF i > Len(cs) THEN best
    ELSE MaxLastFrom(cs, i + 1,
                     IF contourArea(cs[i]) >= contourArea(best) THEN cs[i] ELSE best)

max_last(cs) == MaxLastFrom(cs, 2, cs[1])

\* max(contours, key=cv2.contourArea): the first element with the largest key
max(cs) == MaxFrom(cs, 2, cs[1])

MinOf(S) == CHOOSE m \in S : \A n \in S : m <= n
MaxOf(S) == CHOOSE m \in S : \A n \in S : m >= n

Xs(c) == { c[i][1] : i \in 1..Len(c) }
Ys(c) == { c[i][2] : i \in 1..Len(c) }

boundingRect_swapped(c) ==
    [x |-> MinOf(Xs(c)), y |-> MinOf(Ys(c)),
     w |-> MaxOf(Ys(c)) - MinOf(Ys(c)) + 1,
     h |-> MaxOf(Xs(c)) - MinOf(Xs(c)) + 1]

\* cv2.boundingRect: x, y, w, h of the up-right rectangle covering the points
boundingRect(c) ==
    [x |-> MinOf(Xs(c)), y |-> MinOf(Ys(c)),
     w |-> MaxOf(Xs(c)) - MinOf(Xs(c)) + 1,
     h |-> MaxOf(Ys(c)) - MinOf(Ys(c)) + 1]

\* round(v, 2) for v in thousandths: hundredths, halves to the even neighbour
round(v) ==
    LET q == v \div 10
        r == v % 10
    IN  IF r > 5 \/ (r = 5 /\ q % 2 = 1) THEN q + 1 ELSE q

NoContourZero == Some(0)

\* `return None` of the branch taken when no contour was found
NoContourResult == None

\* ---------------------------------------------------------------- initial state
Init ==
    /\ CONVERSION_FACTOR = 200
    /\ files = << >>
    /\ issued = 0
    /\ pc = [r \in Requests |-> "idle"]
    /\ body = [r \in Requests |-> Body("null", PNG, TRUE, TRUE, SampleImage)]
    /\ image_bytes = [r \in Requests |-> GarbageBytes]
    /\ file_path = [r \in Requests |-> 0]
    /\ grid = [r \in Requests |-> NoGrid]
    /\ contours = [r \in Requests |-> <<>>]
    /\ largest_contour = [r \in Requests |-> <<>>]
    /\ foot_size_cm = [r \in Requests |-> None]
    /\ response = [r \in Requests |-> NoResponse]
    /\ stages = [r \in Requests |-> <<>>]

\* upload_image returns (jsonify(...), status)
Return(r, reply) ==
    /\ response' = [response EXCEPT ![r] = reply]
    /\ pc' = [pc EXCEPT ![r] = "done"]

\* calculate_foot_size returns v to upload_image
CalcReturn(r, v) ==
    /\ foot_size_cm' = [foot_size_cm EXCEPT ![r] = v]
    /\ pc' = [pc EXCEPT ![r] = "respond"]

Call(r, stage) == stages' = [stages EXCEPT ![r] = Append(@, stage)]

\* ---------------------------------------------------------------- upload_image
\* request.get_json() and the checks on the body
Receive(r, b) ==
    /\ pc[r] = "idle"
    /\ body' = [body EXCEPT ![r] = b]
    /\ IF b.json = "invalid"
       THEN Return(r, Reply(500, MsgError))
       ELSE IF b.json \in {"null", "no_image"}
       THEN Return(r, Reply(400, MsgNoImage))
       ELSE IF ~allowed_file_type(b)
       THEN Return(r, Reply(400, MsgBadType))
       ELSE /\ pc' = [pc EXCEPT ![r] = "b64decode"]
            /\ UNCHANGED response
    /\ UNCHANGED <<CONVERSION_FACTOR, files, issued, image_bytes, file_path, grid,
                   contours, largest_contour, foot_size_cm, stages>>

\* image_bytes = base64.b64decode(image_data)
B64Decode(r) ==
    /\ pc[r] = "b64decode"
    /\ IF ~body[r].b64ok
       THEN /\ Return(r, Reply(500, MsgError))
            /\ UNCHANGED image_bytes
       ELSE /\ image_bytes' = [image_bytes EXCEPT ![r] = b64decode(body[r])]
            /\ pc' = [pc EXCEPT ![r] = "save"]
            /\ UNCHANGED response
    /\ UNCHANGED <<CONVERSION_FACTOR, files, issued, body, file_path, grid,
                   contours, largest_contour, foot_size_cm, stages>>

\* the upload is written under a fresh name, then checked to exist
Save(r) ==
    /\ pc[r] = "save"
    /\ LET name == uuid4
       IN  /\ issued' = issued + 1
           /\ file_path' = [file_path EXCEPT ![r] = name]
           /\ files' = WriteFile(files, name, image_bytes[r])
           /\ IF name \in DOMAIN files'
              THEN /\ pc' = [pc EXCEPT ![r] = "imread"]
                   /\ UNCHANGED response
              ELSE Return(r, Reply(500, MsgSaveError))
    /\ UNCHANGED <<CONVERSION_FACTOR, body, image_bytes, grid, contours,
                   largest_contour, foot_size_cm, stages>>

\* the answer built from calculate_foot_size's return value
Respond(r) ==
    /\ pc[r] = "respond"
    /\ IF foot_size_cm[r] # None
       THEN Return(r, ReplySize(200, MsgSuccess, foot_size_cm[r][1]))
       ELSE Return(r, Reply(400, MsgNotDetected))
    /\ UNCHANGED <<CONVERSION_FACTOR, files, issued, body, image_bytes, file_path,
                   grid, contours, largest_contour, foot_size_cm, stages>>

\* ---------------------------------------------------------------- calculate_foot_size
ImreadNoReturn(r) ==
    /\ pc[r] = "imread"
    /\ Call(r, "imread")
    /\ LET img == imread(file_path[r])
       IN  /\ grid' = [grid EXCEPT ![r] = IF img = None THEN NoGrid ELSE img[1]]
           /\ pc' = [pc EXCEPT ![r] = "cvtColor"]
           /\ UNCHANGED foot_size_cm
    /\ UNCHANGED <<CONVERSION_FACTOR, files, issued, body, image_bytes, file_path,
                   contours, largest_contour, response>>

\* img = cv2.imread(image_path); if img is None: return None
Imread(r) ==
    /\ pc[r] = "imread"
    /\ Call(r, "imread")
    /\ LET img == imread(file_path[r])
       IN  IF img = None
           THEN /\ CalcReturn(r, None)
                /\ UNCHANGED grid
           ELSE /\ grid' = [grid EXCEPT ![r] = img[1]]
                /\ pc' = [pc EXCEPT ![r] = "cvtColor"]
                /\ UNCHANGED foot_size_cm
    /\ UNCHANGED <<CONVERSION_FACTOR, files, issued, body, image_bytes, file_path,
                   contours, largest_contour, response>>

\* gray = cv2.cvtColor(img, cv2.COLOR_BGR2GRAY)
CvtColor(r) ==
    /\ pc[r] = "cvtColor"
    /\ Call(r, "cvtColor")
    /\ IF Raises(grid[r], "cvtColor", "bgr")
       THEN /\ CalcReturn(r, None)
            /\ UNCHANGED grid
       ELSE /\ grid' = [grid EXCEPT ![r] = cvtColor(@)]
            /\ pc' = [pc EXCEPT ![r] = "GaussianBlur"]
            /\ UNCHANGED foot_size_cm
    /\ UNCHANGED <<CONVERSION_FACTOR, files, issued, body, image_bytes, file_path,
                   contours, largest_contour, response>>

\* blurred = cv2.GaussianBlur(gray, (5, 5), 0)
Blur(r) ==
    /\ pc[r] = "GaussianBlur"
    /\ Call(r, "GaussianBlur")
    /\ IF Raises(grid[r], "GaussianBlur", "gray")
       THEN /\ CalcReturn(r, None)
            /\ UNCHANGED grid
       ELSE /\ grid' = [grid EXCEPT ![r] = GaussianBlur(@)]
            /\ pc' = [pc EXCEPT ![r] = "Canny"]
            /\ UNCHANGED foot_size_cm
    /\ UNCHANGED <<CONVERSION_FACTOR, files, issued, body, image_bytes, file_path,
                   contours, largest_contour, response>>

\* edged = cv2.Canny(blurred, 50, 150)
Edges(r) ==
    /\ pc[r] = "Canny"
    /\ Call(r, "Canny")
    /\ IF Raises(grid[r], "Canny", "blurred")
       THEN /\ CalcReturn(r, None)
            /\ UNCHANGED grid
       ELSE /\ grid' = [grid EXCEPT ![r] = Canny(@)]
            /\ pc' = [pc EXCEPT ![r] = "findContours"]
            /\ UNCHANGED foot_size_cm
    /\ UNCHANGED <<CONVERSION_FACTOR, files, issued, body, image_bytes, file_path,
                   contours, largest_contour, response>>

\* contours, _ = cv2.findContours(edged, RETR_EXTERNAL, CHAIN_APPROX_SIMPLE)
FindContours(r) ==
    /\ pc[r] = "findContours"
    /\ Call(r, "findContours")
    /\ IF Raises(grid[r], "findContours", "edged")
       THEN /\ CalcReturn(r, None)
            /\ UNCHANGED contours
       ELSE /\ contours' = [contours EXCEPT ![r] = findContours(grid[r])]
            /\ pc' = [pc EXCEPT ![r] = "select"]
            /\ UNCHANGED foot_size_cm
    /\ UNCHANGED <<CONVERSION_FACTOR, files, issued, body, image_bytes, file_path,
                   grid, largest_contour, response>>

SelectIfSeveral(r) ==
    /\ pc[r] = "select"
    /\ IF Len(contours[r]) > 1
       THEN /\ Call(r, "max")
            /\ largest_contour' = [largest_contour EXCEPT ![r] = max(contours[r])]
            /\ pc' = [pc EXCEPT ![r] = "measure"]
            /\ UNCHANGED foot_size_cm
       ELSE /\ CalcReturn(r, NoContourResult)
            /\ UNCHANGED <<largest_contour, stages>>
    /\ UNCHANGED <<CONVERSION_FACTOR, files, issued, body, image_bytes, file_path,
                   grid, contours, response>>

\* if contours: largest_contour = max(contours, key=cv2.contourArea)
\* else: return None
Select(r) ==
    /\ pc[r] = "select"
    /\ IF contours[r] # <<>>
       THEN /\ Call(r, "max")
            /\ largest_contour' = [largest_contour EXCEPT ![r] = max(contours[r])]
            /\ pc' = [pc EXCEPT ![r] = "measure"]
            /\ UNCHANGED foot_size_cm
       ELSE /\ CalcReturn(r, NoContourResult)
            /\ UNCHANGED <<largest_contour, stages>>
    /\ UNCHANGED <<CONVERSION_FACTOR, files, issued, body, image_bytes, file_path,
                   grid, contours, response>>

MeasureInPlace(r) ==
    /\ pc[r] = "measure"
    /\ Call(r, "boundingRect")
    /\ LET rect == boundingRect(largest_contour[r])
       IN  /\ CONVERSION_FACTOR' = rect.w * CONVERSION_FACTOR
           /\ CalcReturn(r, Some(round(CONVERSION_FACTOR')))
    /\ UNCHANGED <<files, issued, body, image_bytes, file_path,
                   grid, contours, largest_contour, response>>

\* x, y, w, h = cv2.boundingRect(largest_contour)
\* return round(w * CONVERSION_FACTOR, 2)
Measure(r) ==
    /\ pc[r] = "measure"
    /\ Call(r, "boundingRect")
    /\ LET rect == boundingRect(largest_contour[r])
           foot_length_cm == rect.w * CONVERSION_FACTOR
       IN  CalcReturn(r, Some(round(foot_length_cm)))
    /\ UNCHANGED <<CONVERSION_FACTOR, files, issued, body, image_bytes, file_path,
                   grid, contours, largest_contour, response>>

\* ---------------------------------------------------------------- specifications
Step(r) ==
    \/ B64Decode(r)
    \/ Save(r)
    \/ Imread(r)
    \/ CvtColor(r)
    \/ Blur(r)
    \/ Edges(r)
    \/ FindContours(r)
    \/ Select(r)
    \/ Measure(r)
    \/ Respond(r)

\* Requests handled concurrently (the server is threaded).
Next ==
    \E r \in Requests :
        \/ \E b \in SharedBodies : Receive(r, b)
        \/ Step(r)

Spec == Init /\ [][Next]_vars

\* One request at a time, over every body.
NextPipeline ==
    \/ \E b \in PipelineBodies : Receive(1, b)
    \/ Step(1)

SpecPipeline == Init /\ [][NextPipeline]_vars

\* ---------------------------------------------------------------- properties
Returned(r) == pc[r] \in {"respond", "done"}
Answered(r) == pc[r] = "done"
Saved(r) == file_path[r] # 0
Called(r, stage) == \E i \in 1..Len(stages[r]) : stages[r][i] = stage

\* findContours ran for r and returned normally
Found(r) == Returned(r) /\ Called(r, "findContours") /\ grid[r].data.raises # "findContours"

IsPrefix(s, t) == Len(s) <= Len(t) /\ \A i \in 1..Len(s) : s[i] = t[i]

\* C1: when findContours returns no contour, calculate_foot_size returns None
\* and upload_image answers without foot_size_cm; a measurement (0 or any
\* other) is never reported for such an image.
C1_NoContourNoMeasurement ==
    \A r \in Requests :
        (Found(r) /\ contours[r] = <<>>) =>
            /\ foot_size_cm[r] = None
            /\ "foot_size_cm" \notin DOMAIN response[r]
            /\ Answered(r) => response[r] = Reply(400, MsgNotDetected)

C1_Witness ==
    \E r \in Requests : Found(r) /\ contours[r] = <<>> /\ Answered(r)

\* C3: the selected contour is an element of the contour list whose area is
\* at least that of every element, and the first such element in list order.
C3_FirstLargest ==
    \A r \in Requests :
        (Found(r) /\ contours[r] # <<>>) =>
            \E i \in 1..Len(contours[r]) :
                /\ largest_contour[r] = contours[r][i]
                /\ \A j \in 1..Len(contours[r]) :
                       contourArea(contours[r][j]) <= contourArea(contours[r][i])
                /\ \A j \in 1..(i - 1) :
                       contourArea(contours[r][j]) < contourArea(contours[r][i])

C3_Witness ==
    \E r \in Requests :
        /\ Found(r)
        /\ Len(contours[r]) = 2
        /\ contours[r][1] # contours[r][2]
        /\ contourArea(contours[r][1]) = contourArea(contours[r][2])
        /\ contourArea(contours[r][1]) > 0
        /\ largest_contour[r] = contours[r][1]

\* C4: the reported measurement (hundredths of a cm) is the bounding box's
\* width times 0.2 cm (200 thousandths), rounded to the nearest hundredth;
\* it is a function of the width alone.
C4_WidthTimesFactor ==
    \A r \in Requests :
        (Found(r) /\ contours[r] # <<>>) =>
            /\ foot_size_cm[r] # None
            /\ \E a, b \in Xs(largest_contour[r]) :
                   /\ \A x \in Xs(largest_contour[r]) : a <= x /\ x <= b
                   /\ Abs(10 * foot_size_cm[r][1] - 200 * (b - a + 1)) <= 5
            /\ Answered(r) => response[r].foot_size_cm = foot_size_cm[r][1]

C4_Witness ==
    \E r \in Requests :
        /\ Answered(r) /\ Found(r) /\ contours[r] # <<>>
        /\ boundingRect(largest_contour[r]).h > boundingRect(largest_contour[r]).w
        /\ boundingRect(largest_contour[r]).x > 0
        /\ boundingRect(largest_contour[r]).y > 0
        /\ response[r].foot_size_cm = 20

\* The stage at which the pipeline stops on these bytes ("none": it does not).
FailStage(bytes) ==
    IF ~Decodes(bytes) THEN "imread" ELSE bytes.raises

StagesThrough(stage) ==
    LET k == CHOOSE i \in 1..Len(PipelineStages) : PipelineStages[i] = stage
    IN  SubSeq(PipelineStages, 1, k)

\* C5: the stages of a request run at most once each and in pipeline order,
\* and none runs after the stage that failed.
C5_OnceInOrder ==
    \A r \in Requests :
        /\ IsPrefix(stages[r], PipelineStages)
        /\ (Saved(r) /\ FailStage(image_bytes[r]) # "none") =>
               /\ IsPrefix(stages[r], StagesThrough(FailStage(image_bytes[r])))
               /\ Returned(r) => stages[r] = StagesThrough(FailStage(image_bytes[r]))

C5_Witness ==
    \E r \in Requests :
        /\ Answered(r)
        /\ Saved(r)
        /\ FailStage(image_bytes[r]) = "Canny"
        /\ stages[r] = <<"imread", "cvtColor", "GaussianBlur", "Canny">>

\* C8: when findContours returns at least one contour the request ends with a
\* measurement: a non-negative number, answered with status 200.
C8_ContourGivesMeasurement ==
    \A r \in Requests :
        (Found(r) /\ contours[r] # <<>>) =>
            /\ foot_size_cm[r] # None
            /\ foot_size_cm[r][1] >= 0
            /\ Answered(r) =>
                   response[r] = ReplySize(200, MsgSuccess, foot_size_cm[r][1])

C8_Witness ==
    \E r \in Requests :
        Found(r) /\ Len(contours[r]) = 1 /\ Answered(r) /\ response[r].status = 200

\* bytes that imread cannot decode / bytes in which no contour is found
Undecodable(r) == Saved(r) /\ ~Decodes(image_bytes[r])
NoObject(r) == Found(r) /\ contours[r] = <<>>

\* C2: an undecodable image and an image without contours never get the same
\* value from calculate_foot_size nor the same response, and the no-object
\* response is given only when the pipeline ran to its end and found no contour.
C2_DecodeErrorDistinct ==
    /\ \A r1, r2 \in Requests :
           (Answered(r1) /\ Undecodable(r1) /\ Answered(r2) /\ NoObject(r2)) =>
               /\ foot_size_cm[r1] # foot_size_cm[r2]
               /\ response[r1] # response[r2]
    /\ \A r \in Requests :
           (Answered(r) /\ response[r] = Reply(400, MsgNotDetected)) => NoObject(r)

\* C6: two requests that upload the same bytes get the same value from
\* calculate_foot_size and the same response.
C6_SameBytesSameResult ==
    \A r1, r2 \in Requests :
        (Saved(r1) /\ Saved(r2) /\ image_bytes[r1] = image_bytes[r2]) =>
            /\ (Returned(r1) /\ Returned(r2)) => foot_size_cm[r1] = foot_size_cm[r2]
            /\ (Answered(r1) /\ Answered(r2)) => response[r1] = response[r2]

C6_Witness ==
    \E r1, r2 \in Requests :
        /\ r1 # r2
        /\ Answered(r1) /\ Answered(r2)
        /\ Saved(r1) /\ Saved(r2)
        /\ image_bytes[r1] = image_bytes[r2]
        /\ file_path[r1] < file_path[r2]
        /\ response[r1].status = 200

\* The response a request with body b gets when it is the only request.
AloneWidth(cs) ==
    LET best == CHOOSE i \in 1..Len(cs) :
                    /\ \A j \in 1..Len(cs) : contourArea(cs[j]) <= contourArea(cs[i])
                    /\ \A j \in 1..(i - 1) : contourArea(cs[j]) < contourArea(cs[i])
    IN  MaxOf(Xs(cs[best])) - MinOf(Xs(cs[best])) + 1

Alone(b) ==
    IF b.json = "invalid" THEN Reply(500, MsgError)
    ELSE IF b.json # "image" THEN Reply(400, MsgNoImage)
    ELSE IF b.header \notin {PNG, JPEG} THEN Reply(400, MsgBadType)
    ELSE IF ~b.b64ok THEN Reply(500, MsgError)
    ELSE IF ~b.sep \/ ~b.payload.decodable \/ b.payload.raises # "none"
            \/ b.payload.contours = <<>>
    THEN Reply(400, MsgNotDetected)
    ELSE ReplySize(200, MsgSuccess, 20 * AloneWidth(b.payload.contours))

\* C7: under every interleaving a request gets the response it gets when run
\* alone; it reads only the file it wrote, no two requests share a file, and
\* the conversion factor keeps its startup value.
C7_Isolation ==
    /\ CONVERSION_FACTOR = 200
    /\ \A r \in Requests :
           /\ Answered(r) => response[r] = Alone(body[r])
           /\ (Saved(r) /\ ~Returned(r)) =>
                  /\ file_path[r] \in DOMAIN files
                  /\ files[file_path[r]] = image_bytes[r]
           /\ (Saved(r) /\ grid[r].tag # "none") => grid[r].data = image_bytes[r]
    /\ \A r1, r2 \in Requests :
           (r1 # r2 /\ Saved(r1) /\ Saved(r2)) => file_path[r1] # file_path[r2]

C7_Witness ==
    \E r1, r2 \in Requests :
        /\ Answered(r1) /\ Answered(r2)
        /\ Saved(r1) /\ Saved(r2)
        /\ image_bytes[r1] # image_bytes[r2]
        /\ file_path[r1] < file_path[r2]
        /\ stages[r1] # <<>>
        /\ response[r1].status = 200
        /\ response[r2].status = 400

\* the body is missing, has no 'image', or its image is neither PNG nor JPEG
Rejected(b) ==
    \/ b.json \in {"null", "no_image"}
    \/ b.json = "image" /\ b.header \notin {PNG, JPEG}

C10_FilesOnlyGrow ==
    [][ /\ \A n \in DOMAIN files : n \in DOMAIN files' /\ files'[n] = files[n]
        /\ \A r \in Requests :
               (pc[r] = "save" /\ pc'[r] # "save") =>
                   /\ file_path'[r] \notin DOMAIN files
                   /\ DOMAIN files' = DOMAIN files \cup {file_path'[r]}
                   /\ files'[file_path'[r]] = image_bytes[r]
        /\ (\A r \in Requests : pc[r] = "save" => pc'[r] = "save") =>
               DOMAIN files' = DOMAIN files
      ]_vars

C10_Witness ==
    \E r1, r2 \in Requests :
        /\ Answered(r1) /\ Answered(r2)
        /\ response[r1].status = 200
        /\ Undecodable(r2)
        /\ Cardinality(DOMAIN files) = 2
        /\ files[file_path[r1]] = image_bytes[r1]
        /\ files[file_path[r2]] = image_bytes[r2]

====
